---- MODULE Spec2Model ----
(***************************************************************************)
(* A model of the diagram canvas of crowbar: Component, Wire, CanvasScene *)
(* and CanvasView of src/widgets/canvas/Canvas.py and click_descriptor of *)
(* src/ui/UiUtils.py.                                                      *)
(*                                                                         *)
(* Scene coordinates are integers.  The zoom scalar and the view           *)
(* transform's m11 are Python floats / C++ qreals, i.e. IEEE-754 binary64  *)
(* values; they are modelled bit-exactly (53-bit significand, round to     *)
(* nearest, ties to even) on top of a small natural-number arithmetic      *)
(* whose digits fit the model checker's integers.                          *)
(***************************************************************************)
EXTENDS Integers, Sequences, FiniteSets, TLC

(***************************************************************************)
(* Natural numbers of arbitrary size: little-endian sequences of digits    *)
(* in base 2^15, without leading (trailing in the sequence) zero digits.   *)
(***************************************************************************)
Min(a, b) == IF a < b THEN a ELSE b

Max(a, b) == IF a > b THEN a ELSE b

DigitBits == 15

Base == 2 ^ DigitBits

RECURSIVE BNorm(_)
BNorm(a) ==
    IF a = << >> THEN a
    ELSE IF a[Len(a)] = 0 THEN BNorm(SubSeq(a, 1, Len(a) - 1)) ELSE a

RECURSIVE BFromInt(_)
BFromInt(n) == IF n = 0 THEN << >> ELSE <<n % Base>> \o BFromInt(n \div Base)

RECURSIVE BAddC(_, _, _)
BAddC(a, b, c) ==
    IF a = << >> /\ b = << >>
    THEN (IF c = 0 THEN << >> ELSE <<c>>)
    ELSE LET x == IF a = << >> THEN 0 ELSE Head(a)
             y == IF b = << >> THEN 0 ELSE Head(b)
             s == x + y + c
         IN  <<s % Base>> \o BAddC(IF a = << >> THEN a ELSE Tail(a),
                                   IF b = << >> THEN b ELSE Tail(b),
                                   s \div Base)

BAdd(a, b) == BAddC(a, b, 0)

\* a - b for a >= b
RECURSIVE BSubC(_, _, _)
BSubC(a, b, c) ==
    IF a = << >> THEN << >>
    ELSE LET y == IF b = << >> THEN 0 ELSE Head(b)
             d == Head(a) - y - c
         IN  <<d % Base>> \o BSubC(Tail(a),
                                   IF b = << >> THEN b ELSE Tail(b),
                                   IF d < 0 THEN 1 ELSE 0)

BSub(a, b) == BNorm(BSubC(a, b, 0))

\* -1, 0 or 1 as a < b, a = b, a > b
RECURSIVE BCmpAt(_, _, _)
BCmpAt(a, b, i) ==
    IF i = 0 THEN 0
    ELSE IF a[i] < b[i] THEN -1
    ELSE IF a[i] > b[i] THEN 1
    ELSE BCmpAt(a, b, i - 1)

BCmp(a, b) ==
    IF Len(a) < Len(b) THEN -1
    ELSE IF Len(a) > Len(b) THEN 1
    ELSE BCmpAt(a, b, Len(a))

\* a * k + c for a digit k
RECURSIVE BMulSmallC(_, _, _)
BMulSmallC(a, k, c) ==
    IF a = << >>
    THEN (IF c = 0 THEN << >> ELSE <<c>>)
    ELSE LET p == Head(a) * k + c
         IN  <<p % Base>> \o BMulSmallC(Tail(a), k, p \div Base)

BMulSmall(a, k) == IF k = 0 THEN << >> ELSE BMulSmallC(a, k, 0)

RECURSIVE BMul(_, _)
BMul(a, b) ==
    IF a = << >> \/ b = << >> THEN << >>
    ELSE LET rest == BMul(a, Tail(b))
         IN  BAdd(BMulSmall(a, Head(b)),
                  IF rest = << >> THEN rest ELSE <<0>> \o rest)

\* floor(a / k) for 0 < k <= Base
RECURSIVE BDivSmallAt(_, _, _, _)
BDivSmallAt(a, k, i, r) ==
    IF i = 0 THEN << >>
    ELSE LET cur == r * Base + a[i]
         IN  BDivSmallAt(a, k, i - 1, cur % k) \o <<cur \div k>>

BDivSmall(a, k) == BNorm(BDivSmallAt(a, k, Len(a), 0))

BShl(a, n) ==
    IF a = << >> THEN a
    ELSE [i \in 1..(n \div DigitBits) |-> 0] \o BMulSmall(a, 2 ^ (n % DigitBits))

BShr(a, n) ==
    IF Len(a) <= n \div DigitBits THEN << >>
    ELSE BDivSmall(SubSeq(a, (n \div DigitBits) + 1, Len(a)), 2 ^ (n % DigitBits))

RECURSIVE IntBitLen(_)
IntBitLen(n) == IF n = 0 THEN 0 ELSE 1 + IntBitLen(n \div 2)

BBitLen(a) ==
    IF a = << >> THEN 0 ELSE DigitBits * (Len(a) - 1) + IntBitLen(a[Len(a)])

BIsOdd(a) == a # << >> /\ a[1] % 2 = 1

\* bit i (1 = least significant) of a
BBit(a, i) ==
    LET d == ((i - 1) \div DigitBits) + 1
    IN  IF d > Len(a) THEN 0 ELSE (a[d] \div (2 ^ ((i - 1) % DigitBits))) % 2

\* one digit of a long division: the largest q with q * d <= r, for r < d * Base
\* and a divisor d whose top digit is at least Base / 2.  The estimate from the
\* top two digits of r is never too small, and is corrected downwards.
RECURSIVE BQuotientDigit(_, _, _)
BQuotientDigit(r, d, q) ==
    IF BCmp(BMulSmall(d, q), r) > 0 THEN BQuotientDigit(r, d, q - 1) ELSE q

BDivDigit(r, d) ==
    LET hi == IF Len(r) > Len(d) THEN r[Len(d) + 1] ELSE 0
        lo == IF Len(r) >= Len(d) THEN r[Len(d)] ELSE 0
    IN  BQuotientDigit(r, d, Min((hi * Base + lo) \div d[Len(d)], Base - 1))

\* one step of long division: bring down the digit x after the state p
BDivStep(d, x, p) ==
    LET r1 == BNorm(<<x>> \o p.r)
        qd == BDivDigit(r1, d)
    IN  [q |-> BNorm(<<qd>> \o p.q), r |-> BSub(r1, BMulSmall(d, qd))]

\* long division of the top k digits of n by d, a digit at a time (each state
\* is bound as a value before the next step uses it)
RECURSIVE BDivTop(_, _, _)
BDivTop(n, d, k) ==
    IF k = 0 THEN [q |-> << >>, r |-> << >>]
    ELSE CHOOSE res \in {BDivStep(d, n[Len(n) - k + 1], p) : p \in {BDivTop(n, d, k - 1)}} : TRUE

\* [q, r] with q = floor(n / d) for d > 0, and r = << >> exactly if d divides n
\* (n and d are first scaled to bring the top digit of d to Base / 2 at least,
\* which leaves the quotient alone and scales the remainder)
BDivMod(n, d) ==
    LET sh == DigitBits - IntBitLen(d[Len(d)])
    IN  CHOOSE res \in {BDivTop(n1, d1, Len(n1)) : n1 \in {BShl(n, sh)}, d1 \in {BShl(d, sh)}} : TRUE

(***************************************************************************)
(* binary64 values: [m |-> significand, e |-> exponent] stands for m * 2^e *)
(* with m a natural number of exactly Precision bits.  Only positive,      *)
(* normal values occur (zoom scalars and their factors).                   *)
(***************************************************************************)
Precision == 53

\* n * 2^e rounded to the nearest value of Precision bits, ties to even
FRound(n, e) ==
    LET len == BBitLen(n)
        sh  == len - Precision
    IN  IF len <= Precision
        THEN [m |-> BShl(n, Precision - len), e |-> e - (Precision - len)]
        ELSE CHOOSE res \in
                 {LET rem  == BSub(n, BShl(q, sh))
                      half == BShl(<<1>>, sh - 1)
                      c    == BCmp(rem, half)
                      up   == c > 0 \/ (c = 0 /\ BIsOdd(q))
                  IN  IF ~up THEN [m |-> q, e |-> e + sh]
                      ELSE IF BBitLen(BAdd(q, <<1>>)) > Precision
                      THEN [m |-> BShr(BAdd(q, <<1>>), 1), e |-> e + sh + 1]
                      ELSE [m |-> BAdd(q, <<1>>), e |-> e + sh]
                  : q \in {BShr(n, sh)}} : TRUE

FFromInt(n) == FRound(BFromInt(n), 0)

FMul(x, y) == FRound(BMul(x.m, y.m), x.e + y.e)

\* the quotient carries Precision + 4 bits at least and a sticky bit for an
\* inexact division, which round exactly as the true quotient does
FDiv(x, y) ==
    LET dm == BDivMod(BShl(x.m, Precision + 4), y.m)
        n  == BAdd(BMulSmall(dm.q, 2), IF dm.r = << >> THEN << >> ELSE <<1>>)
    IN  FRound(n, x.e - y.e - (Precision + 4) - 1)

FLess(x, y) == x.e < y.e \/ (x.e = y.e /\ BCmp(x.m, y.m) < 0)


(***************************************************************************)
(* State.                                                                  *)
(*   components  the Components constructed so far, in order               *)
(*   wires       the Wires constructed so far, in order                    *)
(*   raised      TRUE once a call has ended in a Python exception          *)
(*   sceneRect   CanvasScene.sceneRect()                                   *)
(*   snap        CanvasScene._grid_snap_increment                          *)
(*   m11         CanvasView.transform().m11()                              *)
(*   zoom        CanvasView._zoom                                          *)
(*   ops         number of operations performed so far                     *)
(*   event, suffix, action, diag, pc   one call of click_descriptor: its   *)
(*               arguments, the string built, what it printed, and whether *)
(*               it has returned                                           *)
(*   painted     the lines of the last CanvasScene.drawBackground, by bin  *)
(*   scrolled    number of wheel events handed to QGraphicsView.wheelEvent *)
(***************************************************************************)
VARIABLES components, wires, raised, sceneRect, snap, m11, zoom, ops,
          event, suffix, action, diag, pc, painted, scrolled

sceneVars == <<components, wires, raised, sceneRect, snap>>

viewVars == <<m11, zoom>>

inputVars == <<event, suffix, action, diag, pc>>

outputVars == <<painted, scrolled>>

vars == <<components, wires, raised, sceneRect, snap, m11, zoom, ops,
          event, suffix, action, diag, pc, painted, scrolled>>

(***************************************************************************)
(* Bounds of the model.                                                    *)
(***************************************************************************)
MaxComponents == 2

MaxWires == 1

MaxSceneOps == 4

MaxZoomOps == 20

MaxCoord == 4

MaxSnap == 4

(***************************************************************************)
(* Geometry: points are <<x, y>>, rectangles [x, y, w, h] as QRectF.       *)
(***************************************************************************)
RectLeft(r) == r.x

RectRight(r) == r.x + r.w

RectTop(r) == r.y

RectBottom(r) == r.y + r.h

RectCenter(r) == <<r.x + r.w \div 2, r.y + r.h \div 2>>

\* QRectF.contains(QPointF): edges included
RectContains(r, pt) ==
    /\ RectLeft(r) <= pt[1] /\ pt[1] <= RectRight(r)
    /\ RectTop(r) <= pt[2] /\ pt[2] <= RectBottom(r)

\* Python's round(n / d) for integers n and d > 0: nearest integer, ties to
\* the even one
PyRound(n, d) ==
    LET q == n \div d
        r == n % d
    IN  IF 2 * r < d THEN q
        ELSE IF 2 * r > d THEN q + 1
        ELSE IF q % 2 = 0 THEN q ELSE q + 1

(***************************************************************************)
(* Component                                                               *)
(***************************************************************************)
DEFAULT_SIZE_W == 80

DEFAULT_SIZE_H == 80

Socket == {"NONE", "TOP", "BOTTOM", "LEFT", "RIGHT"}

Mode == {"NORMAL", "TRUE", "FALSE", "ERROR"}

\* Python's None
None == << >>

\* Component.__init__: the rectangle is centred on pos, in the item's own
\* coordinates; the item's position in the scene stays at the toolkit's
\* default (0, 0) and the item belongs to no scene yet
NewComponent(pos) ==
    [rect  |-> [x |-> pos[1] - DEFAULT_SIZE_W \div 2,
                y |-> pos[2] - DEFAULT_SIZE_H \div 2,
                w |-> DEFAULT_SIZE_W,
                h |-> DEFAULT_SIZE_H],
     p     |-> <<0, 0>>,
     scene |-> FALSE]

\* Component.pos(): the centre of the rectangle, in item coordinates
ComponentPos(c) == RectCenter(c.rect)

\* itemChange that snaps to the grid first and clamps afterwards
itemChange_SnapThenClamp(c, change, new_pos) ==
    IF change = "ItemPositionChange" /\ c.scene
    THEN LET snapped == <<PyRound(new_pos[1], snap) * snap, PyRound(new_pos[2], snap) * snap>>
         IN  IF ~RectContains(sceneRect, snapped)
             THEN <<Min(RectRight(sceneRect), Max(snapped[1], RectLeft(sceneRect))),
                    Min(RectBottom(sceneRect), Max(snapped[2], RectTop(sceneRect)))>>
             ELSE snapped
    ELSE new_pos

\* Component.itemChange
itemChange(c, change, new_pos) ==
    IF change = "ItemPositionChange" /\ c.scene
    THEN LET clamped ==
                 IF ~RectContains(sceneRect, new_pos)
                 THEN <<Min(RectRight(sceneRect), Max(new_pos[1], RectLeft(sceneRect))),
                        Min(RectBottom(sceneRect), Max(new_pos[2], RectTop(sceneRect)))>>
                 ELSE new_pos
         IN  <<PyRound(clamped[1], snap) * snap, PyRound(clamped[2], snap) * snap>>
    ELSE new_pos

\* Component.socketPoint
socketPoint(c, side) ==
    IF side = "TOP" THEN <<ComponentPos(c)[1], RectTop(c.rect)>>
    ELSE IF side = "BOTTOM" THEN <<ComponentPos(c)[1], RectBottom(c.rect)>>
    ELSE IF side = "LEFT" THEN <<RectLeft(c.rect), ComponentPos(c)[2]>>
    ELSE IF side = "RIGHT" THEN <<RectRight(c.rect), ComponentPos(c)[2]>>
    ELSE None

\* where the toolkit draws a point of the item: item coordinates plus the
\* item's position (QGraphicsItem.mapToScene of an untransformed top-level item)
mapToScene(c, pt) == <<c.p[1] + pt[1], c.p[2] + pt[2]>>

(***************************************************************************)
(* Wire                                                                    *)
(***************************************************************************)
Color == [NORMAL |-> <<192, 192, 192>>,
          TRUE   |-> <<0, 192, 0>>,
          FALSE  |-> <<192, 0, 0>>,
          ERROR  |-> <<192, 192, 0>>]

\* the path Wire.autoRoute builds; appending None to a QPolygonF raises
\* TypeError, which is the result None here
RoutedPath(from_component, from_socket, to_component, to_socket) ==
    LET a == socketPoint(from_component, from_socket)
        b == socketPoint(to_component, to_socket)
    IN  IF a = None \/ b = None THEN None ELSE <<a, b>>

(***************************************************************************)
(* CanvasScene                                                             *)
(***************************************************************************)
\* CanvasScene.__init__: setSceneRect(-5000, -500, 10000, 10000)
SceneRectInit == [x |-> -5000, y |-> -500, w |-> 10000, h |-> 10000]

grid_snap_increment == 10

\* positions handed to Component(pos): the three of WindowMain.create_pane_right
\* and one off the snap grid
CreatePoints == {<<0, 0>>, <<0, 100>>, <<3, 7>>}

\* positions proposed by setPos or by a drag: next to the origin; a tie of the
\* rounding and a point below the scene rectangle
ProposedPoints == {<<1, 1>>, <<25, 9600>>}

\* the sockets a Wire is routed between: every Socket at either end
SocketPairs == {<<"BOTTOM", "TOP">>, <<"TOP", "BOTTOM">>, <<"RIGHT", "LEFT">>,
                <<"LEFT", "NONE">>, <<"NONE", "RIGHT">>}

\* Component(pos)
CreateComponent(pos) ==
    /\ ops < MaxSceneOps
    /\ Len(components) < MaxComponents
    /\ components' = Append(components, NewComponent(pos))
    /\ ops' = ops + 1
    /\ UNCHANGED <<wires, raised, sceneRect, snap, viewVars, inputVars, outputVars>>

\* QGraphicsScene.addItem(component)
addItem(i) ==
    /\ ops < MaxSceneOps
    /\ ~components[i].scene
    /\ components' = [components EXCEPT ![i].scene = TRUE]
    /\ ops' = ops + 1
    /\ UNCHANGED <<wires, raised, sceneRect, snap, viewVars, inputVars, outputVars>>

\* QGraphicsItem.setPos(new_pos), also called for every mouse move of a drag:
\* the toolkit asks itemChange(ItemPositionChange, new_pos) and moves the item
\* to the position returned
setPos(i, new_pos) ==
    /\ ops < MaxSceneOps
    /\ components' = [components EXCEPT
                        ![i].p = itemChange(components[i], "ItemPositionChange", new_pos)]
    /\ ops' = ops + 1
    /\ UNCHANGED <<wires, raised, sceneRect, snap, viewVars, inputVars, outputVars>>

\* Wire(from_component, from_socket, to_component, to_socket, mode):
\* autoRoute, then setMode.  The arguments of the last autoRoute are kept in
\* route for reference; the Wire itself keeps only the polygon.
CreateWire(f, fs, t, ts, mode) ==
    /\ ops < MaxSceneOps
    /\ Len(wires) < MaxWires
    /\ LET path == RoutedPath(components[f], fs, components[t], ts)
       IN  IF path = None
           THEN /\ raised' = TRUE
                /\ UNCHANGED wires
           ELSE /\ wires' = Append(wires,
                                   [route   |-> <<f, fs, t, ts>>,
                                    polygon |-> path,
                                    mode    |-> mode,
                                    color   |-> Color[mode]])
                /\ UNCHANGED raised
    /\ ops' = ops + 1
    /\ UNCHANGED <<components, sceneRect, snap, viewVars, inputVars, outputVars>>

\* Wire.autoRoute
autoRoute(w, f, fs, t, ts) ==
    /\ ops < MaxSceneOps
    /\ LET path == RoutedPath(components[f], fs, components[t], ts)
       IN  IF path = None
           THEN /\ raised' = TRUE
                /\ UNCHANGED wires
           ELSE /\ wires' = [wires EXCEPT ![w].route = <<f, fs, t, ts>>,
                                          ![w].polygon = path]
                /\ UNCHANGED raised
    /\ ops' = ops + 1
    /\ UNCHANGED <<components, sceneRect, snap, viewVars, inputVars, outputVars>>

\* setMode that leaves the pen as it is
setMode_KeepsPen(w, mode) ==
    /\ ops < MaxSceneOps
    /\ wires' = [wires EXCEPT ![w].mode = mode]
    /\ ops' = ops + 1
    /\ UNCHANGED <<components, raised, sceneRect, snap, viewVars, inputVars, outputVars>>

\* Wire.setMode
setMode(w, mode) ==
    /\ ops < MaxSceneOps
    /\ wires' = [wires EXCEPT ![w].mode = mode, ![w].color = Color[mode]]
    /\ ops' = ops + 1
    /\ UNCHANGED <<components, raised, sceneRect, snap, viewVars, inputVars, outputVars>>

\* CanvasScene._grid_line_increment
grid_line_increment == 20

\* CanvasScene.grid_minor
grid_minor == grid_line_increment

\* CanvasScene.grid_medium
grid_medium == grid_minor * 5

\* CanvasScene.grid_major
grid_major == grid_medium * 5

\* QRect.right() and QRect.bottom() of a rectangle of integers: the last
\* column and row inside it
QRectRight(r) == r.x + r.w - 1

QRectBottom(r) == r.y + r.h - 1

\* range(start, stop, step) for a step above 0, as a sequence
PyRange(start, stop, step) ==
    LET n == IF stop > start THEN (stop - start + step - 1) \div step ELSE 0
    IN  [i \in 1..n |-> start + (i - 1) * step]

\* the rectangle r of drawBackground: rect with a bit of overshoot
GridRect(rect) ==
    [x |-> rect.x - grid_minor - (rect.x % grid_minor),
     y |-> rect.y - grid_minor - (rect.y % grid_minor),
     w |-> rect.w + 2 * (grid_minor + (rect.w % grid_minor)),
     h |-> rect.h + 2 * (grid_minor + (rect.h % grid_minor))]

\* the bin chain with the test for the medium pitch ahead of the major one
GridBin_MediumFirst(c) ==
    IF c % grid_medium = 0 THEN "medium"
    ELSE IF c % grid_major = 0 THEN "major"
    ELSE "minor"

\* the bin a line at coordinate c is appended to
GridBin(c) ==
    IF c % grid_major = 0 THEN "major"
    ELSE IF c % grid_medium = 0 THEN "medium"
    ELSE "minor"

\* the lines of the two loops of drawBackground, in the order they are made:
\* QLineF(x, r.top(), x, r.bottom()) for x in range(r.left(), r.right(), minor),
\* then QLineF(r.left(), y, r.right(), y) for y in range(r.top(), r.bottom(), minor)
GridLines(r) ==
    LET xs == PyRange(r.x, QRectRight(r), grid_minor)
        ys == PyRange(r.y, QRectBottom(r), grid_minor)
    IN  [i \in 1..Len(xs) |-> [c |-> xs[i], line |-> <<xs[i], r.y, xs[i], QRectBottom(r)>>]]
        \o
        [i \in 1..Len(ys) |-> [c |-> ys[i], line |-> <<r.x, ys[i], QRectRight(r), ys[i]>>]]

\* the lines appended to one bin, in order
LinesOfBin(all, bin) ==
    LET InBin(l) == GridBin(l.c) = bin
        kept == SelectSeq(all, InBin)
    IN  [i \in 1..Len(kept) |-> kept[i].line]

\* viewport rectangles handed to drawBackground: a span (start, extent) on
\* either axis, one of the two taken from a few fixed spans
MaxGridStart == 21

MaxGridExtent == 21

GridSpans == {<<l, w>> : l \in (0 - MaxGridStart)..MaxGridStart, w \in 0..MaxGridExtent}

GridPivotSpans == {<<0, 100>>, <<480, 40>>, <<-21, 7>>}

GridRects ==
    {[x |-> a[1], y |-> b[1], w |-> a[2], h |-> b[2]] :
        a \in GridSpans \cup GridPivotSpans, b \in GridPivotSpans}
    \cup
    {[x |-> a[1], y |-> b[1], w |-> a[2], h |-> b[2]] :
        a \in GridPivotSpans, b \in GridSpans}

\* CanvasScene.drawBackground(painter, rect): the lines drawn, by bin
drawBackground(rect) ==
    /\ \E r \in {GridRect(rect)} :
         \E all \in {GridLines(r)} :
            painted' = [rect |-> rect,
                        r |-> r,
                        lines_minor  |-> LinesOfBin(all, "minor"),
                        lines_medium |-> LinesOfBin(all, "medium"),
                        lines_major  |-> LinesOfBin(all, "major"),
                        lines_axis   |-> <<<<0, r.y, 0, QRectBottom(r)>>,
                                           <<r.x, 0, QRectRight(r), 0>>>>]
    /\ UNCHANGED <<sceneVars, viewVars, inputVars, scrolled, ops>>

(***************************************************************************)
(* CanvasView                                                              *)
(***************************************************************************)
FOne == FFromInt(1)

\* _zoom = 1.0
ZoomInit == FOne

\* _zoom_factor = 1.25
zoom_factor == FDiv(FFromInt(5), FFromInt(4))

\* _zoom_min = 0.125
zoom_min == FDiv(FFromInt(1), FFromInt(8))

\* _zoom_max = 8
zoom_max == FFromInt(8)

\* zoom_by_factor without the test against _zoom_min and _zoom_max
zoom_by_factor_Unchecked(factor) ==
    /\ ops < MaxZoomOps
    /\ m11' = FMul(m11, factor)
    /\ zoom' = m11'
    /\ ops' = ops + 1
    /\ UNCHANGED <<sceneVars, inputVars, outputVars>>

\* CanvasView.zoom_by_factor; QGraphicsView.scale multiplies m11 by the factor
zoom_by_factor(factor) ==
    /\ ops < MaxZoomOps
    /\ \E new_zoom \in {FMul(zoom, factor)} :
          IF FLess(zoom_min, new_zoom) /\ FLess(new_zoom, zoom_max)
          THEN /\ m11' = FMul(m11, factor)
               /\ zoom' = m11'
          ELSE UNCHANGED <<m11, zoom>>
    /\ ops' = ops + 1
    /\ UNCHANGED <<sceneVars, inputVars, outputVars>>

\* factor = 1 / self._zoom_factor
zoom_out_factor == FDiv(FOne, zoom_factor)

\* CanvasView.zoom_out
zoom_out == zoom_by_factor(zoom_out_factor)

\* CanvasView.zoom_in
zoom_in == zoom_by_factor(zoom_factor)

\* zoom_reset that scales the transform and does not read _zoom back from it
zoom_reset_NoReread ==
    /\ ops < MaxZoomOps
    /\ m11' = FMul(m11, FDiv(FOne, zoom))
    /\ zoom' = zoom
    /\ ops' = ops + 1
    /\ UNCHANGED <<sceneVars, inputVars, outputVars>>

\* zoom_reset that scales by 1 / _zoom_factor instead of 1 / _zoom
zoom_reset_ByStep ==
    /\ ops < MaxZoomOps
    /\ m11' = FMul(m11, FDiv(FOne, zoom_factor))
    /\ zoom' = m11'
    /\ ops' = ops + 1
    /\ UNCHANGED <<sceneVars, inputVars, outputVars>>

\* CanvasView.zoom_reset
zoom_reset ==
    /\ ops < MaxZoomOps
    /\ m11' = FMul(m11, FDiv(FOne, zoom))
    /\ zoom' = m11'
    /\ ops' = ops + 1
    /\ UNCHANGED <<sceneVars, inputVars, outputVars>>

\* the pen of a Component is 2 wide, and half of it counts on every side of
\* the item's bounding rectangle
PenWidth == 2

\* QGraphicsScene.itemsBoundingRect(): the rectangle around the Components of
\* the scene as width and height, <<0, 0>> for an empty scene
RECURSIVE SceneExtent(_, _)
SceneExtent(cs, side) ==
    \* side: 1 left, 2 top, 3 right, 4 bottom; the extreme over the sequence cs
    LET c    == Head(cs)
        half == PenWidth \div 2
        own  == IF side = 1 THEN c.p[1] + RectLeft(c.rect) - half
                ELSE IF side = 2 THEN c.p[2] + RectTop(c.rect) - half
                ELSE IF side = 3 THEN c.p[1] + RectRight(c.rect) + half
                ELSE c.p[2] + RectBottom(c.rect) + half
    IN  IF Len(cs) = 1 THEN own
        ELSE IF side <= 2 THEN Min(own, SceneExtent(Tail(cs), side))
        ELSE Max(own, SceneExtent(Tail(cs), side))

itemsBoundingRect ==
    LET inScene == SelectSeq(components, LAMBDA c : c.scene)
    IN  IF inScene = << >> THEN <<0, 0>>
        ELSE <<SceneExtent(inScene, 3) - SceneExtent(inScene, 1),
               SceneExtent(inScene, 4) - SceneExtent(inScene, 2)>>

\* sizes of the viewport widget at the time of a zoom_to_fit
Viewports == {<<1200, 800>>, <<100, 100>>}

\* the margin QGraphicsView.fitInView leaves on every side of the viewport
FitMargin == 2

\* CanvasView.zoom_to_fit: QGraphicsView.fitInView(rect, Qt.KeepAspectRatio)
\* returns at once for a null rect; otherwise it scales the view back to 1:1
\* (by 1 / m11), then by the smaller of the ratios of the viewport (less its
\* margin) to the rect as mapped by the transform
zoom_to_fit(viewport) ==
    /\ ops < MaxZoomOps
    /\ \E rect \in {itemsBoundingRect} :
          IF rect = <<0, 0>>
          THEN UNCHANGED <<m11, zoom>>
          ELSE \E unit \in {FMul(m11, FDiv(FOne, m11))} :
               \E xratio \in {FDiv(FFromInt(viewport[1] - 2 * FitMargin),
                                   FMul(unit, FFromInt(rect[1])))},
                  yratio \in {FDiv(FFromInt(viewport[2] - 2 * FitMargin),
                                   FMul(unit, FFromInt(rect[2])))} :
                  /\ m11' = FMul(unit, IF FLess(yratio, xratio) THEN yratio ELSE xratio)
                  /\ zoom' = m11'
    /\ ops' = ops + 1
    /\ UNCHANGED <<sceneVars, inputVars, outputVars>>

(***************************************************************************)
(* click_descriptor (ui/UiUtils.py).  Strings are sequences of characters. *)
(***************************************************************************)
QtModifiers == {"ControlModifier", "AltModifier", "ShiftModifier", "MetaModifier"}

\* Qt.MouseButton
QtButton == [NoButton |-> 0, LeftButton |-> 1, RightButton |-> 2, MiddleButton |-> 4,
             BackButton |-> 8, ForwardButton |-> 16, ExtraButton3 |-> 32]

ButtonValues == {QtButton[n] : n \in DOMAIN QtButton}

WheelDeltas == {-120, 0, 120}

\* the events click_descriptor is called with (_any_mouse_event): a mouse
\* event with its button, a wheel event with its angleDelta, or a drag-move
\* event; modifiers are the keyboard modifiers held
Events ==
    [kind : {"QMouseEvent", "QGraphicsSceneMouseEvent"}, modifiers : SUBSET QtModifiers,
     button : ButtonValues, dx : {0}, dy : {0}]
    \cup
    [kind : {"QWheelEvent"}, modifiers : SUBSET QtModifiers,
     button : {QtButton.NoButton}, dx : WheelDeltas, dy : WheelDeltas]
    \cup
    [kind : {"QDragMoveEvent"}, modifiers : SUBSET QtModifiers,
     button : {QtButton.NoButton}, dx : {0}, dy : {0}]

\* the events that have the modifiers() and button() click_descriptor calls:
\* a QDragMoveEvent is a QDropEvent, which has keyboardModifiers() and
\* mouseButtons() and neither of the two
HasModifiers(ev) == ev.kind # "QDragMoveEvent"

\* the suffixes of CanvasView's handlers ('click', 'release'), the default ""
\* and one that reads like a token
Suffixes == {<< >>,
             <<"c", "l", "i", "c", "k">>,
             <<"r", "e", "l", "e", "a", "s", "e">>,
             <<"l", "e", "f", "t", "-">>}

with_control_key(ev) == "ControlModifier" \in ev.modifiers

with_alt_key(ev) == "AltModifier" \in ev.modifiers

with_shift_key(ev) == "ShiftModifier" \in ev.modifiers

\* the token of the wheel branch of click_descriptor
WheelTokens(ev) ==
    (IF ev.dy > 0 THEN <<"u", "p", "-">>
     ELSE IF ev.dy < 0 THEN <<"d", "o", "w", "n", "-">> ELSE << >>)
    \o
    (IF ev.dx > 0 THEN <<"l", "e", "f", "t", "-">>
     ELSE IF ev.dx < 0 THEN <<"r", "i", "g", "h", "t", "-">> ELSE << >>)

\* the button chain with the tests for the back and the left button exchanged
ButtonToken_BackLeftSwapped(ev) ==
    IF ev.button = QtButton.RightButton THEN <<"r", "i", "g", "h", "t", "-">>
    ELSE IF ev.button = QtButton.MiddleButton THEN <<"m", "i", "d", "d", "l", "e", "-">>
    ELSE IF ev.button = QtButton.LeftButton THEN <<"b", "a", "c", "k", "-">>
    ELSE IF ev.button = QtButton.ForwardButton THEN <<"f", "w", "d", "-">>
    ELSE IF ev.button = QtButton.BackButton THEN <<"l", "e", "f", "t", "-">>
    ELSE IF ev.button > 0 THEN <<"u", "n", "k", "n", "o", "w", "n", "-">>
    ELSE << >>

\* the token of the button branch of click_descriptor
ButtonToken(ev) ==
    IF ev.button = QtButton.RightButton THEN <<"r", "i", "g", "h", "t", "-">>
    ELSE IF ev.button = QtButton.MiddleButton THEN <<"m", "i", "d", "d", "l", "e", "-">>
    ELSE IF ev.button = QtButton.BackButton THEN <<"b", "a", "c", "k", "-">>
    ELSE IF ev.button = QtButton.ForwardButton THEN <<"f", "w", "d", "-">>
    ELSE IF ev.button = QtButton.LeftButton THEN <<"l", "e", "f", "t", "-">>
    ELSE IF ev.button > 0 THEN <<"u", "n", "k", "n", "o", "w", "n", "-">>
    ELSE << >>

\* click_descriptor(event, suffix): the string returned
click_descriptor(ev, sfx) ==
    LET a1 == IF with_control_key(ev) THEN <<"c", "t", "r", "l", "-">> ELSE << >>
        a2 == IF with_alt_key(ev) THEN a1 \o <<"a", "l", "t", "-">> ELSE a1
        a3 == IF with_shift_key(ev) THEN a2 \o <<"s", "h", "i", "f", "t", "-">> ELSE a2
        a4 == IF ev.kind = "QWheelEvent" THEN a3 \o WheelTokens(ev)
              ELSE a3 \o ButtonToken(ev)
    IN  a4 \o sfx

\* what click_descriptor prints: "Unknown button:" and the button, in the last
\* branch of the button chain only
UnknownButtonPrinted(ev) ==
    IF /\ ev.kind # "QWheelEvent"
       /\ ev.button \notin {QtButton.RightButton, QtButton.MiddleButton, QtButton.BackButton,
                            QtButton.ForwardButton, QtButton.LeftButton}
       /\ ev.button > 0
    THEN <<ev.button>>
    ELSE << >>

\* one call of click_descriptor(event, suffix)
Classify ==
    /\ pc = "call"
    /\ IF HasModifiers(event)
       THEN /\ action' = click_descriptor(event, suffix)
            /\ diag' = UnknownButtonPrinted(event)
            /\ pc' = "returned"
            /\ UNCHANGED raised
       ELSE \* event.modifiers() raises AttributeError in with_control_key
            /\ raised' = TRUE
            /\ pc' = "raised"
            /\ UNCHANGED <<action, diag>>
    /\ UNCHANGED <<event, suffix, ops, components, wires, sceneRect, snap, viewVars,
                   outputVars>>

\* the wheel events CanvasView.wheelEvent is called with
WheelEvents ==
    [kind : {"QWheelEvent"}, modifiers : SUBSET {"ControlModifier", "ShiftModifier"},
     button : {QtButton.NoButton}, dx : WheelDeltas, dy : WheelDeltas]

\* wheelEvent with the two directions exchanged
wheelEvent_DirectionsSwapped(ev) ==
    IF with_control_key(ev) /\ ev.dy # 0
    THEN IF ev.dy > 0 THEN zoom_out ELSE zoom_in
    ELSE /\ ops < MaxZoomOps
         /\ scrolled' = scrolled + 1
         /\ ops' = ops + 1
         /\ UNCHANGED <<sceneVars, viewVars, inputVars, painted>>

\* CanvasView.wheelEvent: zoom on Ctrl-scroll, else super().wheelEvent(event),
\* which scrolls the view and leaves its transform alone
wheelEvent(ev) ==
    IF with_control_key(ev) /\ ev.dy # 0
    THEN IF ev.dy > 0 THEN zoom_in ELSE zoom_out
    ELSE /\ ops < MaxZoomOps
         /\ scrolled' = scrolled + 1
         /\ ops' = ops + 1
         /\ UNCHANGED <<sceneVars, viewVars, inputVars, painted>>

(***************************************************************************)
(* Specifications                                                          *)
(***************************************************************************)
RestScene ==
    /\ components = << >>
    /\ wires = << >>
    /\ raised = FALSE
    /\ sceneRect = SceneRectInit
    /\ snap = grid_snap_increment

RestView ==
    /\ m11 = FOne
    /\ zoom = ZoomInit

\* nothing painted yet, no wheel event forwarded
NotPainted == [rect |-> << >>, r |-> << >>, lines_minor |-> << >>, lines_medium |-> << >>,
               lines_major |-> << >>, lines_axis |-> << >>]

RestOutput ==
    /\ painted = NotPainted
    /\ scrolled = 0

RestInput ==
    /\ event = [kind |-> "QMouseEvent", modifiers |-> {}, button |-> QtButton.NoButton,
                dx |-> 0, dy |-> 0]
    /\ suffix = << >>
    /\ action = << >>
    /\ diag = << >>
    /\ pc = "idle"

\* the scene: Components and Wires are constructed, added, moved, routed
Init ==
    /\ RestScene
    /\ RestView
    /\ RestInput
    /\ RestOutput
    /\ ops = 0

Next ==
    \/ \E pos \in CreatePoints : CreateComponent(pos)
    \/ \E i \in DOMAIN components : addItem(i)
    \/ \E i \in DOMAIN components, pt \in ProposedPoints : setPos(i, pt)
    \/ \E f, t \in DOMAIN components, ss \in SocketPairs, mode \in Mode :
          CreateWire(f, ss[1], t, ss[2], mode)
    \/ \E w \in DOMAIN wires, f, t \in DOMAIN components, ss \in SocketPairs :
          autoRoute(w, f, ss[1], t, ss[2])
    \/ \E w \in DOMAIN wires, mode \in Mode : setMode(w, mode)

Spec == Init /\ [][Next]_vars

\* the placement hook alone, applied once to any proposed position, for a
\* Component in a scene of any rectangle around the origin and any snap increment
PlacementRects ==
    {[x |-> l, y |-> t, w |-> r - l, h |-> b - t] :
        l \in (0 - MaxCoord)..0, r \in 1..MaxCoord,
        t \in (0 - MaxCoord)..0, b \in 1..MaxCoord}

PlacementPoints ==
    {<<x, y>> : x \in (0 - MaxCoord - 2)..(MaxCoord + 2), y \in (0 - MaxCoord - 2)..(MaxCoord + 2)}

InitPlacement ==
    /\ components = <<[NewComponent(<<0, 0>>) EXCEPT !.scene = TRUE]>>
    /\ wires = << >>
    /\ raised = FALSE
    /\ sceneRect \in PlacementRects
    /\ snap \in 1..MaxSnap
    /\ RestView
    /\ RestInput
    /\ RestOutput
    /\ ops = MaxSceneOps - 1

NextPlacement == \E pt \in PlacementPoints : setPos(1, pt)

SpecPlacement == InitPlacement /\ [][NextPlacement]_vars

\* the view's zoom, stepped and reset
NextZoom ==
    \/ zoom_in
    \/ zoom_out
    \/ zoom_reset

SpecZoom == Init /\ [][NextZoom]_vars

\* the view's zoom with zoom_to_fit, over a scene that holds no Component, one
\* Component, or the three Components of WindowMain.create_pane_right
FitScenes ==
    LET C(pos) == [NewComponent(pos) EXCEPT !.scene = TRUE]
    IN  {<< >>,
         <<C(<<0, 0>>)>>,
         <<C(<<0, 0>>), C(<<0, 100>>), C(<<0, 200>>)>>,
         <<C(<<0, 0>>), [C(<<0, 100>>) EXCEPT !.p = <<5000, 9500>>]>>}

InitView ==
    /\ components \in FitScenes
    /\ wires = << >>
    /\ raised = FALSE
    /\ sceneRect = SceneRectInit
    /\ snap = grid_snap_increment
    /\ RestView
    /\ RestInput
    /\ RestOutput
    /\ ops = 0

NextView ==
    \/ zoom_in
    \/ zoom_out
    \/ zoom_reset
    \/ \E viewport \in Viewports : zoom_to_fit(viewport)

SpecView == InitView /\ [][NextView]_vars

\* click_descriptor, called once for any event and suffix
InitInput ==
    /\ RestScene
    /\ RestView
    /\ event \in Events
    /\ suffix \in Suffixes
    /\ action = << >>
    /\ diag = << >>
    /\ pc = "call"
    /\ RestOutput
    /\ ops = 0

NextInput == Classify

SpecInput == InitInput /\ [][NextInput]_vars

\* the background, painted once for any exposed rectangle
InitGrid ==
    /\ RestScene
    /\ RestView
    /\ RestInput
    /\ \E rect \in GridRects : painted = [NotPainted EXCEPT !.rect = rect]
    /\ scrolled = 0
    /\ ops = 0

NextGrid == painted.r = << >> /\ drawBackground(painted.rect)

SpecGrid == InitGrid /\ [][NextGrid]_vars

\* the view under a run of wheel events of any kind
MaxWheelOps == 7

NextWheel == ops < MaxWheelOps /\ \E ev \in WheelEvents : wheelEvent(ev)

SpecWheel == Init /\ [][NextWheel]_vars

\* node A at (0, 0), node B at (0, 100), a Wire from A to B of mode NORMAL, all
\* in a scene of any rectangle and snap increment (the program's own among
\* them); A is moved once, to any proposed position
MoveSpans == {<<l, r - l>> : l \in (0 - MaxCoord)..0, r \in 1..MaxCoord}

MovePivotSpan == <<0 - MaxCoord, MaxCoord + 1>>

MoveRects ==
    {[x |-> a[1], y |-> MovePivotSpan[1], w |-> a[2], h |-> MovePivotSpan[2]] : a \in MoveSpans}
    \cup
    {[x |-> MovePivotSpan[1], y |-> b[1], w |-> MovePivotSpan[2], h |-> b[2]] : b \in MoveSpans}

MovePoints ==
    {<<v, v>> : v \in (0 - MaxCoord - 2)..(MaxCoord + 2)}
    \cup {<<v, 1>> : v \in (0 - MaxCoord - 2)..(MaxCoord + 2)}
    \cup {<<1, v>> : v \in (0 - MaxCoord - 2)..(MaxCoord + 2)}

InitMove ==
    /\ components = <<[NewComponent(<<0, 0>>) EXCEPT !.scene = TRUE],
                      [NewComponent(<<0, 100>>) EXCEPT !.scene = TRUE]>>
    /\ wires = <<[route   |-> <<1, "BOTTOM", 2, "TOP">>,
                  polygon |-> RoutedPath(NewComponent(<<0, 0>>), "BOTTOM",
                                         NewComponent(<<0, 100>>), "TOP"),
                  mode    |-> "NORMAL",
                  color   |-> Color["NORMAL"]]>>
    /\ raised = FALSE
    /\ sceneRect \in MoveRects \cup {SceneRectInit}
    /\ snap \in (1..MaxSnap) \cup {grid_snap_increment}
    /\ RestView
    /\ RestInput
    /\ RestOutput
    /\ ops = MaxSceneOps - 1

NextMove == \E pt \in MovePoints : setPos(1, pt)

SpecMove == InitMove /\ [][NextMove]_vars

(***************************************************************************)
(* Properties                                                              *)
(***************************************************************************)
\* the centre of a Component in scene coordinates
SceneCenter(c) == mapToScene(c, ComponentPos(c))

\* the scene point of a socket of a Component
SceneSocketPoint(c, side) ==
    IF socketPoint(c, side) = None THEN None ELSE mapToScene(c, socketPoint(c, side))

OnGrid(pt) == pt[1] % snap = 0 /\ pt[2] % snap = 0

\* C1: every Component of the scene has its centre, in scene coordinates,
\* inside the scene rectangle and on the snap grid, whatever position it was
\* created at and whatever positions were proposed for it since.
C1_CentersInBoundsOnGrid ==
    \A i \in DOMAIN components :
        components[i].scene =>
            /\ RectContains(sceneRect, SceneCenter(components[i]))
            /\ OnGrid(SceneCenter(components[i]))

HookHasRun == ops = MaxSceneOps

\* C2: for every scene rectangle, every snap increment and every proposed
\* position, the position the placement hook commits lies in the rectangle and
\* both its coordinates are multiples of the snap increment.
C2_CommittedInBoundsOnGrid ==
    HookHasRun =>
        /\ RectContains(sceneRect, SceneCenter(components[1]))
        /\ OnGrid(SceneCenter(components[1]))

ZoomInside(z) == FLess(zoom_min, z) /\ FLess(z, zoom_max)

\* C3: from zoom 1.0, whatever zoom_in and zoom_out (and zoom_reset) calls are
\* made, the zoom scalar stays strictly between _zoom_min and _zoom_max, and a
\* zoom_in or zoom_out whose proposed scalar is not strictly between them
\* changes neither the zoom scalar nor the transform.
C3_ZoomStepsStayInside ==
    /\ [](ZoomInside(zoom))
    /\ [][/\ (zoom_in /\ ~ZoomInside(FMul(zoom, zoom_factor)))
                => UNCHANGED <<m11, zoom>>
          /\ (zoom_out /\ ~ZoomInside(FMul(zoom, zoom_out_factor)))
                => UNCHANGED <<m11, zoom>>]_vars

\* 1.25^9 = 1953125 / 262144, the largest power of the step below 8
FStepPower9 == FDiv(FFromInt(1953125), FFromInt(262144))

\* a run of MaxZoomOps operations has ended at 1.25^9, where zoom_in proposes
\* 1.25^10 > 8 and is refused
C3_Witness ==
    /\ ops = MaxZoomOps
    /\ zoom = FStepPower9
    /\ m11 = FStepPower9
    /\ ~ZoomInside(FMul(zoom, zoom_factor))

\* C4: after any zoom operation of the view (zoom_in, zoom_out, zoom_reset,
\* zoom_to_fit), for any Components and any viewport, the zoom scalar lies
\* strictly between _zoom_min and _zoom_max.
C4_ZoomInsideAfterAnyOperation == ZoomInside(zoom)

\* C5: zoom_reset, after any zoom operations, leaves the zoom scalar equal to 1.0.
C5_ResetYieldsOne == [][zoom_reset => zoom' = FOne]_vars

\* the binary64 value next below 1.0: 1 - 2^-53
FOnePred == [m |-> BSub(BShl(<<1>>, Precision), <<1>>), e |-> 0 - Precision]

\* C5 amended: zoom_reset, after any zoom operations, leaves the zoom scalar at
\* 1.0 or at the binary64 value next below it (1 - 2^-53).
C5_ResetYieldsOneWithinUlp == [][zoom_reset => zoom' \in {FOne, FOnePred}]_vars

\* a zoom_reset has left the zoom scalar next below 1.0
C5_Witness == ops > 0 /\ zoom = FOnePred /\ m11 = FOnePred

\* the step moves a Component
Moves(i) ==
    /\ i \in DOMAIN components
    /\ i \in DOMAIN components'
    /\ components'[i].p # components[i].p

\* the path between the scene points of the sockets a Wire was routed for
CurrentPath(w, cs) ==
    <<SceneSocketPoint(cs[w.route[1]], w.route[2]),
      SceneSocketPoint(cs[w.route[3]], w.route[4])>>

\* C6: whenever a Component at either end of a Wire moves, the Wire is routed
\* again: after the move its path starts at the scene point of the source
\* socket and ends at the scene point of the target socket.
C6_WiresFollowMoves ==
    [][\A w \in DOMAIN wires :
          (Moves(wires[w].route[1]) \/ Moves(wires[w].route[3]))
              => /\ w \in DOMAIN wires'
                 /\ wires'[w].polygon = CurrentPath(wires'[w], components')]_vars

IsGray(c) == c[1] = c[2] /\ c[2] = c[3] /\ c[1] > 0

IsGreen(c) == c[1] = 0 /\ c[2] > 0 /\ c[3] = 0

IsRed(c) == c[1] > 0 /\ c[2] = 0 /\ c[3] = 0

IsYellow(c) == c[1] > 0 /\ c[2] = c[1] /\ c[3] = 0

ColorOfMode(w) ==
    /\ w.mode = "NORMAL" => IsGray(w.color)
    /\ w.mode = "TRUE" => IsGreen(w.color)
    /\ w.mode = "FALSE" => IsRed(w.color)
    /\ w.mode = "ERROR" => IsYellow(w.color)

C8_RouteJoinsSceneSockets ==
    [][/\ raised' = raised
       /\ \A w \in DOMAIN wires' :
             (w \notin DOMAIN wires \/ wires'[w].route # wires[w].route)
                 => wires'[w].polygon = CurrentPath(wires'[w], components')]_vars

\* the modifier prefixes of an event, in the order ctrl-, alt-, shift-
ModifierPrefix(ev) ==
    (IF "ControlModifier" \in ev.modifiers THEN <<"c", "t", "r", "l", "-">> ELSE << >>)
    \o (IF "AltModifier" \in ev.modifiers THEN <<"a", "l", "t", "-">> ELSE << >>)
    \o (IF "ShiftModifier" \in ev.modifiers THEN <<"s", "h", "i", "f", "t", "-">> ELSE << >>)

\* str is pre followed by something followed by post
Frames(str, pre, post) ==
    /\ Len(str) >= Len(pre) + Len(post)
    /\ SubSeq(str, 1, Len(pre)) = pre
    /\ SubSeq(str, Len(str) - Len(post) + 1, Len(str)) = post

\* what str holds between pre and post
Between(str, pre, post) == SubSeq(str, Len(pre) + 1, Len(str) - Len(post))

\* one token: letters closed by a single "-"
IsToken(t) ==
    /\ Len(t) >= 2
    /\ t[Len(t)] = "-"
    /\ \A k \in 1..(Len(t) - 1) : t[k] # "-"

Called == pc \in {"returned", "raised"}

Returned == pc = "returned"

PointerEvent == event.kind \in {"QMouseEvent", "QGraphicsSceneMouseEvent"}

WheelEvent == event.kind = "QWheelEvent"

\* a direction block: up- or down- if any, then left- or right- if any
IsDirectionBlock(t) ==
    \E v \in {<< >>, <<"u", "p", "-">>, <<"d", "o", "w", "n", "-">>} :
        \E h \in {<< >>, <<"l", "e", "f", "t", "-">>, <<"r", "i", "g", "h", "t", "-">>} :
            t = v \o h

\* C9: for every pointer event (any modifiers, any button value, any suffix)
\* the classifier returns a string that is the prefixes of the held modifiers
\* in the order ctrl-, alt-, shift-, then exactly one token block (the
\* direction block for a wheel event, one button token for any other event),
\* then the suffix as given.
C9_PrefixesOneTokenSuffix ==
    Called =>
        /\ Returned
        /\ Frames(action, ModifierPrefix(event), suffix)
        /\ IF WheelEvent
           THEN IsDirectionBlock(Between(action, ModifierPrefix(event), suffix))
           ELSE IsToken(Between(action, ModifierPrefix(event), suffix))

\* the token the classifier is to emit for a button value, the forward button
\* spelt fw
TokenOfButton(b, fw) ==
    IF b = 2 THEN <<"r", "i", "g", "h", "t", "-">>
    ELSE IF b = 4 THEN <<"m", "i", "d", "d", "l", "e", "-">>
    ELSE IF b = 8 THEN <<"b", "a", "c", "k", "-">>
    ELSE IF b = 16 THEN fw
    ELSE IF b = 1 THEN <<"l", "e", "f", "t", "-">>
    ELSE <<"u", "n", "k", "n", "o", "w", "n", "-">>

KnownButtons == {1, 2, 4, 8, 16}

Painted == painted.r # << >>

\* the places of seq that hold a vertical line at x = k
VerticalAt(seq, k) ==
    {i \in DOMAIN seq : seq[i][1] = k /\ seq[i][3] = k /\ seq[i][2] # seq[i][4]}

\* the places of seq that hold a horizontal line at y = k
HorizontalAt(seq, k) ==
    {i \in DOMAIN seq : seq[i][2] = k /\ seq[i][4] = k /\ seq[i][1] # seq[i][3]}

PitchBins == painted.lines_minor \o painted.lines_medium \o painted.lines_major

\* the bin a line at coordinate k belongs in: major if k is divisible by the
\* major pitch, else medium if divisible by the medium pitch, else minor
BinFor(k) ==
    IF k % grid_major = 0 THEN painted.lines_major
    ELSE IF k % grid_medium = 0 THEN painted.lines_medium
    ELSE painted.lines_minor

C12_WheelRouting ==
    [][\A ev \in WheelEvents :
          wheelEvent(ev) =>
             IF with_control_key(ev)
             THEN /\ (ev.dy > 0 /\ zoom_in) \/ (ev.dy < 0 /\ zoom_out)
                  /\ scrolled' = scrolled
             ELSE /\ scrolled' = scrolled + 1
                  /\ UNCHANGED <<m11, zoom>>]_vars

\* C12 amended: a wheel event with the control modifier held and a vertical
\* delta other than 0 is a zoom_in if the delta is positive and a zoom_out if it
\* is negative, and is not handed on to the default handler; every other wheel
\* event (no control modifier, or a vertical delta of 0) is handed on to the
\* default handler and changes neither the zoom scalar nor the transform.
C12_WheelRoutingByVerticalDelta ==
    [][\A ev \in WheelEvents :
          wheelEvent(ev) =>
             IF with_control_key(ev) /\ ev.dy # 0
             THEN /\ (ev.dy > 0 /\ zoom_in) \/ (ev.dy < 0 /\ zoom_out)
                  /\ scrolled' = scrolled
             ELSE /\ scrolled' = scrolled + 1
                  /\ UNCHANGED <<m11, zoom>>]_vars

\* wheel events have zoomed the view in and others have been handed on
C12_Witness ==
    /\ scrolled > 0
    /\ FLess(FOne, zoom)
    /\ m11 = zoom

\* C13: the four socket points of every Component of the scene are derived
\* from its committed centre (cx, cy) in scene coordinates: TOP is
\* (cx, cy - h/2), BOTTOM (cx, cy + h/2), LEFT (cx - w/2, cy) and RIGHT
\* (cx + w/2, cy), after any position change.
C13_SocketsFromCommittedCenter ==
    \A i \in DOMAIN components :
        components[i].scene =>
            LET c == components[i]
                cx == SceneCenter(c)[1]
                cy == SceneCenter(c)[2]
            IN  /\ socketPoint(c, "TOP") = <<cx, cy - (c.rect.h \div 2)>>
                /\ socketPoint(c, "BOTTOM") = <<cx, cy + (c.rect.h \div 2)>>
                /\ socketPoint(c, "LEFT") = <<cx - (c.rect.w \div 2), cy>>
                /\ socketPoint(c, "RIGHT") = <<cx + (c.rect.w \div 2), cy>>

AbsDiff(a, b) == IF a < b THEN b - a ELSE a - b

\* v brought into lo..hi
ClampTo(lo, hi, v) == IF v < lo THEN lo ELSE IF v > hi THEN hi ELSE v

\* the proposed position pt brought into the scene rectangle
ClampedPoint(pt) ==
    <<ClampTo(RectLeft(sceneRect), RectRight(sceneRect), pt[1]),
      ClampTo(RectTop(sceneRect), RectBottom(sceneRect), pt[2])>>

\* q is a multiple of the snap increment nearest to v, the even multiple if
\* v lies halfway between two
NearestMultiple(q, v) ==
    /\ q % snap = 0
    /\ 2 * AbsDiff(q, v) <= snap
    /\ (2 * AbsDiff(q, v) = snap) => ((q \div snap) % 2 = 0)

\* C14: the position committed for a proposed one is, in each coordinate, the
\* multiple of the snap increment s nearest to the proposed coordinate clamped
\* into the scene rectangle (at most s/2 away from it, half-way cases going to
\* the even multiple); with s = 10 and the program's scene rectangle, node A
\* moved from (0, 0) to proposed (1, 1) is committed at (0, 0) and the Wire from
\* A still starts at A's socket as computed from (0, 0).
C14_ClampThenSnap ==
    [][\A pt \in MovePoints :
          setPos(1, pt) =>
             /\ NearestMultiple(components'[1].p[1], ClampedPoint(pt)[1])
             /\ NearestMultiple(components'[1].p[2], ClampedPoint(pt)[2])
             /\ (/\ snap = 10
                 /\ sceneRect = SceneRectInit
                 /\ SceneCenter(components[1]) = <<0, 0>>
                 /\ pt = <<1, 1>>)
                => /\ SceneCenter(components'[1]) = <<0, 0>>
                   /\ wires'[1].polygon[1]
                         = SceneSocketPoint(components'[1], wires'[1].route[2])]_vars

\* in the program's scene with s = 10, A has been moved and is committed at
\* (0, 0), and the Wire from A starts at A's BOTTOM socket
C14_Witness ==
    /\ HookHasRun
    /\ Len(wires) = 1
    /\ snap = 10
    /\ sceneRect = SceneRectInit
    /\ SceneCenter(components[1]) = <<0, 0>>
    /\ wires[1].polygon[1] = SceneSocketPoint(components[1], "BOTTOM")

\* the exponents k of the step the zoom scalar can stand at
StepExponents == (0 - 9)..9

\* step^k as the fraction 5^k / 4^k (4^-k / 5^-k for k below 0)
StepNum(k) == IF k >= 0 THEN 5 ^ k ELSE 4 ^ (0 - k)

StepDen(k) == IF k >= 0 THEN 4 ^ k ELSE 5 ^ (0 - k)

\* the float nearest to step^k
StepPower(k) == FDiv(FFromInt(StepNum(k)), FFromInt(StepDen(k)))

StepPowers == {StepPower(k) : k \in StepExponents}

\* |z - num / den| <= n * 2^-51 * num / den, for a float z below 2^52
WithinOfFraction(z, num, den, n) ==
    \E A \in {BMul(z.m, BFromInt(den))} :
       \E B \in {BShl(BFromInt(num), 0 - z.e)} :
          LET diff == IF BCmp(A, B) >= 0 THEN BSub(A, B) ELSE BSub(B, A)
          IN  BCmp(BShl(diff, 51), BMul(B, BFromInt(n))) <= 0

\* |y - z| <= 2^-51 * z
WithinOfFloat(y, z) ==
    LET emin == Min(y.e, z.e)
        A == BShl(z.m, z.e - emin)
        B == BShl(y.m, y.e - emin)
        diff == IF BCmp(A, B) >= 0 THEN BSub(A, B) ELSE BSub(B, A)
    IN  BCmp(BShl(diff, 51), A) <= 0

\* this step is a zoom_in that is committed
CommittedZoomIn == zoom_in /\ ZoomInside(FMul(zoom, zoom_factor))

\* the zoom scalar a zoom_out called next leaves
AfterZoomOut(z) ==
    IF ZoomInside(FMul(z, zoom_out_factor)) THEN FMul(z, zoom_out_factor) ELSE z

\* C15: from zoom 1.0, after any zoom_in, zoom_out and zoom_reset calls, the
\* zoom scalar equals the transform's m11 and is exactly 1.25^k for a k from -9
\* to 9 (as a float: the float nearest to 1.25^k); a committed zoom_in followed
\* at once by zoom_out leaves the scalar that was there before.
C15_ZoomIsStepPower ==
    /\ [](zoom = m11 /\ zoom \in StepPowers)
    /\ [][CommittedZoomIn => AfterZoomOut(zoom') = zoom]_vars

\* C15 amended: from zoom 1.0, after any n zoom_in, zoom_out and zoom_reset
\* calls, the zoom scalar equals the transform's m11 and is 1.25^k for a k from
\* -9 to 9 up to a relative error of n * 2^-51; a committed zoom_in followed at
\* once by a committed zoom_out leaves the scalar that was there before up to a
\* relative error of 2^-51.
C15_ZoomIsStepPowerRounded ==
    /\ [](/\ zoom = m11
          /\ \E k \in StepExponents : WithinOfFraction(zoom, StepNum(k), StepDen(k), ops))
    /\ [][(CommittedZoomIn /\ ZoomInside(FMul(zoom', zoom_out_factor)))
             => WithinOfFloat(AfterZoomOut(zoom'), zoom)]_vars

\* the zoom scalar has drifted off the powers of the step, and a zoom_in from
\* here is committed
C15_Witness ==
    /\ zoom = m11
    /\ zoom \notin StepPowers
    /\ ZoomInside(FMul(zoom, zoom_factor))
    /\ ops < MaxZoomOps

====
